---- MODULE Spec2Model ----
(***************************************************************************)
(* A model of scraper's element references (src/element_ref/mod.rs) and    *)
(* of its form model (src/html/form.rs): the Select and Text iterators,    *)
(* descendent_elements, is_child_of, Form::wrap, Form::inputs, get_value.  *)
(*                                                                         *)
(* The document tree is immutable.  Node ids are ego_tree NodeIds; the     *)
(* children of a node are ordered by id, and a child's id is larger than   *)
(* its parent's, so every ordered tree shape has a numbering, and document *)
(* order differs from id order in some of them.                            *)
(***************************************************************************)
EXTENDS Integers, Sequences, FiniteSets, TLC

VARIABLES
    parent,     \* the tree: node id -> id of its parent, 0 for the root
    node,       \* the tree: node id -> node value (Element, Text or Comment)
    sel,        \* the Select iterators: 1 is the original, 2 its clone
    selOut,     \* per Select iterator: the elements next() has returned
    selEnded,   \* per Select iterator: next() has returned None
    selLast,    \* per Select iterator: what the last next() returned
    forkIt,     \* the original Select as it was when it was cloned
    lastOp,     \* the operation that produced this state
    txt,        \* the Text iterator
    txtScope,   \* the element text() was called on
    txtOut,     \* the strings the Text iterator has returned
    txtEnded,   \* the Text iterator has returned None
    desc,       \* the descendent_elements() iterator
    descOut,    \* the elements it has returned
    descEnded,  \* it has returned None
    walk,       \* the is_child_of call in progress: its loop state
    form,       \* the outcome of Form::wrap
    inputs,     \* the outcome of Form::inputs
    gv          \* the outcome of a get_value call

vars == <<parent, node, sel, selOut, selEnded, selLast, forkIt, lastOp,
          txt, txtScope, txtOut, txtEnded, desc, descOut, descEnded, walk, form,
          inputs, gv>>

(***************************************************************************)
(* Bounds.                                                                 *)
(***************************************************************************)
MaxNodes == 4      \* nodes of a tree in the iterator, tree and value specifications
FormNodes == 4     \* nodes of a tree in the form specifications
InputNodes == 1     \* nodes of a tree of input elements

(***************************************************************************)
(* Option values: None is the empty sequence, Some(v) the sequence <<v>>.  *)
(***************************************************************************)
None == <<>>
Some(v) == <<v>>
IsSome(o) == o # None
Unwrap(o) == o[1]

(***************************************************************************)
(* Node values.                                                            *)
(***************************************************************************)
NoAttrs == [a \in {} |-> ""]
Elem(name, attrs) == [kind |-> "Element", name |-> name, attrs |-> attrs, text |-> ""]
TextNode(s) == [kind |-> "Text", name |-> "", attrs |-> NoAttrs, text |-> s]
CommentNode == [kind |-> "Comment", name |-> "", attrs |-> NoAttrs, text |-> "c"]

Nodes == DOMAIN parent

(***************************************************************************)
(* The tree primitives of ego_tree::NodeRef.  0 stands for None.           *)
(***************************************************************************)
Min(S) == CHOOSE x \in S : \A y \in S : x <= y
Max(S) == CHOOSE x \in S : \A y \in S : x >= y

NodeRef_parent(n) == parent[n]

ChildSet(n) == {c \in Nodes : parent[c] = n}

NodeRef_first_child(n) == IF ChildSet(n) = {} THEN 0 ELSE Min(ChildSet(n))

NodeRef_next_sibling(n) ==
    LET later == {c \in Nodes : parent[c] = parent[n] /\ c > n}
    IN IF parent[n] = 0 \/ later = {} THEN 0 ELSE Min(later)

NodeRef_prev_sibling(n) ==
    LET earlier == {c \in Nodes : parent[c] = parent[n] /\ c < n}
    IN IF parent[n] = 0 \/ earlier = {} THEN 0 ELSE Max(earlier)

RECURSIVE SiblingsFrom(_)
SiblingsFrom(n) == IF n = 0 THEN <<>> ELSE <<n>> \o SiblingsFrom(NodeRef_next_sibling(n))

\* NodeRef::children(): the children of n, first to last
NodeRef_children(n) == SiblingsFrom(NodeRef_first_child(n))

(***************************************************************************)
(* ego_tree::iter::Traverse: the open/close edge walk of a subtree.        *)
(***************************************************************************)
NoEdge == [tag |-> "None", node |-> 0]
Open(n) == [tag |-> "Open", node |-> n]
Close(n) == [tag |-> "Close", node |-> n]

\* NodeRef::traverse()
NodeRef_traverse(n) == [root |-> n, edge |-> NoEdge]

\* Traverse::next(): the iterator after the call; the item returned is its edge
Traverse_next(t) ==
    LET n == t.edge.node IN
    CASE t.edge.tag = "None" ->
            IF t.root # 0 THEN [t EXCEPT !.edge = Open(t.root)] ELSE t
      [] t.edge.tag = "Open" ->
            IF NodeRef_first_child(n) # 0
            THEN [t EXCEPT !.edge = Open(NodeRef_first_child(n))]
            ELSE [t EXCEPT !.edge = Close(n)]
      [] t.edge.tag = "Close" ->
            IF n = t.root THEN [root |-> 0, edge |-> NoEdge]
            ELSE IF NodeRef_next_sibling(n) # 0
            THEN [t EXCEPT !.edge = Open(NodeRef_next_sibling(n))]
            ELSE IF NodeRef_parent(n) # 0
            THEN [t EXCEPT !.edge = Close(NodeRef_parent(n))]
            ELSE [t EXCEPT !.edge = NoEdge]

(***************************************************************************)
(* ElementRef.                                                             *)
(***************************************************************************)
\* ElementRef::wrap
ElementRef_wrap(n) == IF node[n].kind = "Element" THEN Some(n) ELSE None

\* ElementRef::attr
ElementRef_attr(e, a) ==
    IF a \in DOMAIN node[e].attrs THEN Some(node[e].attrs[a]) ELSE None

\* Element::name
Element_name(e) == node[e].name

(***************************************************************************)
(* Selectors and the matcher.  A selector is one of                        *)
(*   type(names)        a, or the list  a, b, ...                          *)
(*   any                *                                                  *)
(*   scope              :scope                                             *)
(*   scope_child(names) :scope > a                                         *)
(*   nth_child(k)       :nth-child(k)                                      *)
(***************************************************************************)
SelType(names) == [kind |-> "type", names |-> names, n |-> 0]
SelAny == [kind |-> "any", names |-> {}, n |-> 0]
SelScope == [kind |-> "scope", names |-> {}, n |-> 0]
SelScopeChild(names) == [kind |-> "scope_child", names |-> names, n |-> 0]
SelNthChild(k) == [kind |-> "nth_child", names |-> {}, n |-> k]

\* NthIndexCache::default()
EmptyCache == [e \in {} |-> 0]

\* The matcher's memoized sibling index of an element: a cached index is
\* returned as it is; otherwise the walk over the previous siblings counts the
\* elements, stops at the first sibling the cache knows, and the result is stored.
RECURSIVE NthWalk(_, _, _)
NthWalk(s, acc, cache) ==
    IF s = 0 THEN acc
    ELSE IF node[s].kind # "Element" THEN NthWalk(NodeRef_prev_sibling(s), acc, cache)
    ELSE IF s \in DOMAIN cache THEN acc + cache[s]
    ELSE NthWalk(NodeRef_prev_sibling(s), acc + 1, cache)

NthIndex(e, cache) ==
    IF e \in DOMAIN cache THEN [index |-> cache[e], cache |-> cache]
    ELSE LET i == NthWalk(NodeRef_prev_sibling(e), 1, cache)
         IN [index |-> i,
             cache |-> [x \in DOMAIN cache \cup {e} |-> IF x = e THEN i ELSE cache[x]]]

\* Selector::matches_with_scope_and_cache: the verdict and the cache after it
Selector_matches_with_scope_and_cache(q, e, scope, cache) ==
    CASE q.kind = "type" -> [result |-> Element_name(e) \in q.names, cache |-> cache]
      [] q.kind = "any" -> [result |-> TRUE, cache |-> cache]
      [] q.kind = "scope" -> [result |-> e = scope, cache |-> cache]
      [] q.kind = "scope_child" ->
            [result |-> Element_name(e) \in q.names /\ NodeRef_parent(e) = scope,
             cache |-> cache]
      [] q.kind = "nth_child" ->
            LET r == NthIndex(e, cache)
            IN [result |-> r.index = q.n, cache |-> r.cache]

(***************************************************************************)
(* The Select iterator.                                                    *)
(***************************************************************************)
NoSelect == [live |-> FALSE, scope |-> 0, inner |-> NodeRef_traverse(0),
             selector |-> SelAny, nth_index_cache |-> EmptyCache]

\* select() without its first inner.next(): the scope's own Open edge is kept
ElementRef_select_keeps_scope(self, selector) ==
    [live |-> TRUE, scope |-> self, inner |-> NodeRef_traverse(self),
     selector |-> selector, nth_index_cache |-> EmptyCache]

\* ElementRef::select
ElementRef_select(self, selector) ==
    [live |-> TRUE, scope |-> self, inner |-> Traverse_next(NodeRef_traverse(self)),
     selector |-> selector, nth_index_cache |-> EmptyCache]

\* Select::clone with the traversal started again at the scope
Select_clone_restarts(s) ==
    [live |-> TRUE, scope |-> s.scope,
     inner |-> Traverse_next(NodeRef_traverse(s.scope)),
     selector |-> s.selector, nth_index_cache |-> EmptyCache]

\* Clone for Select
Select_clone(s) ==
    [live |-> TRUE, scope |-> s.scope, inner |-> s.inner,
     selector |-> s.selector, nth_index_cache |-> EmptyCache]

\* Select::next over a traversal that starts again once it is exhausted
RECURSIVE Select_next_unfused(_)
Select_next_unfused(s) ==
    LET inner == Traverse_next(IF s.inner.root = 0 THEN NodeRef_traverse(s.scope)
                               ELSE s.inner)
        edge == inner.edge
        s1 == [s EXCEPT !.inner = inner]
    IN IF edge.tag = "None" THEN [it |-> s1, item |-> None]
       ELSE IF edge.tag = "Open" /\ IsSome(ElementRef_wrap(edge.node))
       THEN LET m == Selector_matches_with_scope_and_cache(
                         s.selector, edge.node, s.scope, s.nth_index_cache)
                s2 == [s1 EXCEPT !.nth_index_cache = m.cache]
            IN IF m.result THEN [it |-> s2, item |-> Some(edge.node)]
               ELSE Select_next_unfused(s2)
       ELSE Select_next_unfused(s1)

\* Select::next: the iterator after the call and the item returned
RECURSIVE Select_next(_)
Select_next(s) ==
    LET inner == Traverse_next(s.inner)
        edge == inner.edge
        s1 == [s EXCEPT !.inner = inner]
    IN IF edge.tag = "None" THEN [it |-> s1, item |-> None]
       ELSE IF edge.tag = "Open" /\ IsSome(ElementRef_wrap(edge.node))
       THEN LET m == Selector_matches_with_scope_and_cache(
                         s.selector, edge.node, s.scope, s.nth_index_cache)
                s2 == [s1 EXCEPT !.nth_index_cache = m.cache]
            IN IF m.result THEN [it |-> s2, item |-> Some(edge.node)]
               ELSE Select_next(s2)
       ELSE Select_next(s1)

(***************************************************************************)
(* The Text iterator.                                                      *)
(***************************************************************************)
\* ElementRef::text
ElementRef_text(self) == [live |-> TRUE, inner |-> NodeRef_traverse(self)]

\* Text::next that also returns the content of Comment nodes
RECURSIVE Text_next_any_leaf(_)
Text_next_any_leaf(t) ==
    LET inner == Traverse_next(t.inner)
        edge == inner.edge
        t1 == [t EXCEPT !.inner = inner]
    IN IF edge.tag = "None" THEN [it |-> t1, item |-> None]
       ELSE IF edge.tag = "Open" /\ node[edge.node].kind # "Element"
       THEN [it |-> t1, item |-> Some(node[edge.node].text)]
       ELSE Text_next_any_leaf(t1)

\* Text::next: the iterator after the call and the item returned
RECURSIVE Text_next(_)
Text_next(t) ==
    LET inner == Traverse_next(t.inner)
        edge == inner.edge
        t1 == [t EXCEPT !.inner = inner]
    IN IF edge.tag = "None" THEN [it |-> t1, item |-> None]
       ELSE IF edge.tag = "Open" /\ node[edge.node].kind = "Text"
       THEN [it |-> t1, item |-> Some(node[edge.node].text)]
       ELSE Text_next(t1)

(***************************************************************************)
(* child_elements and descendent_elements.                                 *)
(***************************************************************************)
\* ElementRef::child_elements: children().filter_map(ElementRef::wrap)
ElementRef_child_elements(self) ==
    LET IsElement(n) == IsSome(ElementRef_wrap(n))
    IN SelectSeq(NodeRef_children(self), IsElement)

\* ElementRef::descendent_elements: the iterator it returns
ElementRef_descendent_elements(self) ==
    [live |-> TRUE, self |-> self, inner |-> NodeRef_traverse(self)]

\* next() without the filter_map(ElementRef::wrap): every node is returned
RECURSIVE DescendentElements_next_unfiltered(_)
DescendentElements_next_unfiltered(d) ==
    LET inner == Traverse_next(d.inner)
        edge == inner.edge
        d1 == [d EXCEPT !.inner = inner]
    IN IF edge.tag = "None" THEN [it |-> d1, item |-> None]
       ELSE IF edge.tag = "Open" THEN [it |-> d1, item |-> Some(edge.node)]
       ELSE DescendentElements_next_unfiltered(d1)

\* next() of descendants().filter_map(ElementRef::wrap): ego_tree's Descendants
\* returns the node of every Open edge of the traversal, filter_map keeps
\* the elements
RECURSIVE DescendentElements_next(_)
DescendentElements_next(d) ==
    LET inner == Traverse_next(d.inner)
        edge == inner.edge
        d1 == [d EXCEPT !.inner = inner]
    IN IF edge.tag = "None" THEN [it |-> d1, item |-> None]
       ELSE IF edge.tag = "Open" /\ IsSome(ElementRef_wrap(edge.node))
       THEN [it |-> d1, item |-> ElementRef_wrap(edge.node)]
       ELSE DescendentElements_next(d1)

(***************************************************************************)
(* is_child_of.                                                            *)
(***************************************************************************)
\* The while loop of is_child_of: the verdict and the number of iterations
RECURSIVE IsChildOfLoop(_, _, _)
IsChildOfLoop(maybe_parent, p, steps) ==
    IF maybe_parent # 0
    THEN IF maybe_parent = p THEN [result |-> TRUE, steps |-> steps + 1]
         ELSE IsChildOfLoop(NodeRef_parent(maybe_parent), p, steps + 1)
    ELSE [result |-> FALSE, steps |-> steps]

\* is_child_of that looks at the immediate parent only
ElementRef_is_child_of_direct(self, p) == NodeRef_parent(self) = p

\* ElementRef::is_child_of
ElementRef_is_child_of(self, p) == IsChildOfLoop(NodeRef_parent(self), p, 0).result

(***************************************************************************)
(* Serialization of an element's children (inner_html): the markup as a    *)
(* sequence of tokens, start tags without their attributes.                *)
(***************************************************************************)
RECURSIVE SerializeNode(_), SerializeAll(_)
SerializeNode(n) ==
    CASE node[n].kind = "Element" ->
            <<"<", node[n].name, ">">> \o SerializeAll(NodeRef_children(n))
                \o <<"</", node[n].name, ">">>
      [] node[n].kind = "Text" -> <<node[n].text>>
      [] node[n].kind = "Comment" -> <<"<!--", node[n].text, "-->">>
SerializeAll(ns) ==
    IF ns = <<>> THEN <<>> ELSE SerializeNode(Head(ns)) \o SerializeAll(Tail(ns))

\* ElementRef::inner_html
ElementRef_inner_html(self) == SerializeAll(NodeRef_children(self))

(***************************************************************************)
(* The form model.                                                         *)
(***************************************************************************)
\* "button, fieldset, input, keygen, object, output, select, textarea"
ControlSelector ==
    SelType({"button", "fieldset", "input", "keygen", "object", "output",
             "select", "textarea"})

\* find_selected_child that returns the value of the first child with one
find_selected_child_first_value(element) ==
    LET cs == ElementRef_child_elements(element)
        hit == {k \in 1..Len(cs) : IsSome(ElementRef_attr(cs[k], "selected"))
                                    /\ IsSome(ElementRef_attr(cs[k], "value"))}
    IN IF hit = {} THEN None ELSE ElementRef_attr(cs[Min(hit)], "value")

\* find_selected_child
find_selected_child(element) ==
    LET cs == ElementRef_child_elements(element)
        hit == {k \in 1..Len(cs) : IsSome(ElementRef_attr(cs[k], "selected"))}
    IN IF hit = {} THEN None ELSE ElementRef_attr(cs[Min(hit)], "value")

Returned(v) == [panic |-> FALSE, value |-> v]
Panicked == [panic |-> TRUE, value |-> None]

\* The match on the type attribute with checkbox and radio read like the
\* value-carrying types
get_value_input_reads_value(element) ==
    LET type == ElementRef_attr(element, "type") IN
    IF type = None THEN None
    ELSE IF Unwrap(type) \in {"checkbox", "radio", "color", "date", "datetime-local",
                              "email", "hidden", "month", "number", "password",
                              "range", ""}
    THEN ElementRef_attr(element, "value")
    ELSE None

\* get_value, the arm for "input": the match on the type attribute
get_value_input(element) ==
    LET type == ElementRef_attr(element, "type") IN
    IF type = None THEN None
    ELSE IF Unwrap(type) \in {"checkbox", "radio"}
    THEN ElementRef_attr(element, "checked")
    ELSE IF Unwrap(type) \in {"color", "date", "datetime-local", "email", "hidden",
                              "month", "number", "password", "range", ""}
    THEN ElementRef_attr(element, "value")
    ELSE None

\* get_value with no value, instead of a panic, for the other tags
get_value_soft(element) ==
    LET name == Element_name(element) IN
    CASE name = "input" -> Returned(get_value_input(element))
      [] name = "select" -> Returned(find_selected_child(element))
      [] name = "datalist" -> Returned(find_selected_child(element))
      [] name = "textarea" -> Returned(Some(ElementRef_inner_html(element)))
      [] OTHER -> Returned(None)

\* get_value: the value returned, or the panic of unimplemented!
get_value(element) ==
    LET name == Element_name(element) IN
    CASE name = "input" -> Returned(get_value_input(element))
      [] name = "select" -> Returned(find_selected_child(element))
      [] name = "datalist" -> Returned(find_selected_child(element))
      [] name = "textarea" -> Returned(Some(ElementRef_inner_html(element)))
      [] OTHER -> Panicked

\* get_ids
get_ids(element, f) ==
    LET form_ref == ElementRef_attr(element, "form")
        id_ref == ElementRef_attr(f, "id")
    IN IF form_ref = None THEN None
       ELSE IF id_ref = None THEN None
       ELSE Some(<<Unwrap(id_ref), Unwrap(form_ref)>>)

\* belongs_to_form that compares the two Options
belongs_to_form_compares_options(element, f) ==
    ElementRef_attr(element, "form") = ElementRef_attr(f, "id")

\* belongs_to_form
belongs_to_form(element, f) ==
    LET ids == get_ids(element, f)
    IN IF IsSome(ids) THEN Unwrap(ids)[1] = Unwrap(ids)[2] ELSE FALSE

\* Everything a Select returns from here on, in order
RECURSIVE Select_collect(_)
Select_collect(s) ==
    LET r == Select_next(s)
    IN IF r.item = None THEN <<>> ELSE <<Unwrap(r.item)>> \o Select_collect(r.it)

\* root.select(controls).filter(is_child_of || belongs_to_form), as Form::wrap
\* and Form::inputs both write it
Form_members(root, form_element) ==
    LET Member(element) == \/ ElementRef_is_child_of(element, form_element)
                           \/ belongs_to_form(element, form_element)
    IN SelectSeq(Select_collect(ElementRef_select(root, ControlSelector)), Member)

Range(s) == {s[k] : k \in 1..Len(s)}

\* Form::wrap: the Form, or the panic of a get_value call
Form_wrap(root, form_element) ==
    LET ms == Form_members(root, form_element) IN
    IF \E k \in 1..Len(ms) : get_value(ms[k]).panic
    THEN [state |-> "panic", root |-> root, form_element |-> form_element,
          values |-> [e \in {} |-> None]]
    ELSE [state |-> "ok", root |-> root, form_element |-> form_element,
          values |-> [e \in Range(ms) |-> get_value(e).value]]

\* Form::inputs
Form_inputs(self) == Form_members(self.root, self.form_element)

(***************************************************************************)
(* The trees a specification starts from: up to maxn nodes, every node's   *)
(* value drawn from a palette, the root an element, only elements having   *)
(* children.                                                               *)
(***************************************************************************)
ParentFns(n) ==
    {p \in [1..n -> 0..n] : \A i \in 1..n : IF i = 1 THEN p[i] = 0
                                             ELSE p[i] >= 1 /\ p[i] < i}

WellFormed(p, v) ==
    /\ v[1].kind = "Element"
    /\ \A i \in DOMAIN p : p[i] # 0 => v[p[i]].kind = "Element"

TreeInit(palette, maxn) ==
    \E n \in 1..maxn :
        /\ parent \in ParentFns(n)
        /\ node \in {v \in [1..n -> palette] : WellFormed(parent, v)}

Elements == {n \in Nodes : node[n].kind = "Element"}

(***************************************************************************)
(* The values of the variables no operation has touched yet.               *)
(***************************************************************************)
NoText == [live |-> FALSE, inner |-> NodeRef_traverse(0)]
NoDesc == [live |-> FALSE, self |-> 0, inner |-> NodeRef_traverse(0)]
NoWalk == [pc |-> "idle", self |-> 0, parent |-> 0, steps |-> 0, result |-> FALSE]
NoForm == [state |-> "none", root |-> 0, form_element |-> 0,
           values |-> [e \in {} |-> None]]
NoGv == [called |-> FALSE, element |-> 0, result |-> None]
NoFork == [it |-> NoSelect, at |-> 0]

Idle ==
    /\ sel = [i \in 1..2 |-> NoSelect]
    /\ selOut = [i \in 1..2 |-> <<>>]
    /\ selEnded = [i \in 1..2 |-> FALSE]
    /\ selLast = [i \in 1..2 |-> None]
    /\ forkIt = NoFork
    /\ lastOp = "init"
    /\ txt = NoText /\ txtScope = 0 /\ txtOut = <<>> /\ txtEnded = FALSE
    /\ desc = NoDesc /\ descOut = <<>> /\ descEnded = FALSE
    /\ walk = NoWalk
    /\ form = NoForm
    /\ inputs = None
    /\ gv = NoGv

treeVars == <<parent, node>>
selVars == <<sel, selOut, selEnded, selLast, forkIt>>
textVars == <<txt, txtScope, txtOut, txtEnded>>
descVars == <<desc, descOut, descEnded>>
formVars == <<form, inputs, gv>>

(***************************************************************************)
(* The Select operations.                                                  *)
(***************************************************************************)
SelPalette == {Elem("a", NoAttrs), Elem("b", NoAttrs), TextNode("x")}

Selectors ==
    {SelType({"a"}), SelType({"a", "b"}), SelAny, SelScope,
     SelScopeChild({"b"}), SelNthChild(1), SelNthChild(2)}

\* the selectors used where two iterators interleave: the positional ones,
\* which use the cache, and two that do not
CloneSelectors == {SelAny, SelScopeChild({"b"}), SelNthChild(1), SelNthChild(2)}

\* let it = S.select(Q)
SelectCall(Qs) ==
    /\ ~sel[1].live
    /\ \E S \in Elements, Q \in Qs :
          sel' = [sel EXCEPT ![1] = ElementRef_select(S, Q)]
    /\ lastOp' = "select"
    /\ UNCHANGED <<treeVars, selOut, selEnded, selLast, forkIt, textVars,
                   descVars, walk, formVars>>

\* it.next() on the original (i = 1) or on the clone (i = 2)
SelectNext(i) ==
    /\ sel[i].live
    /\ LET r == Select_next(sel[i]) IN
          /\ sel' = [sel EXCEPT ![i] = r.it]
          /\ selLast' = [selLast EXCEPT ![i] = r.item]
          /\ selOut' = [selOut EXCEPT ![i] =
                           IF IsSome(r.item) THEN Append(@, Unwrap(r.item)) ELSE @]
          /\ selEnded' = [selEnded EXCEPT ![i] = @ \/ r.item = None]
    /\ lastOp' = "next"
    /\ UNCHANGED <<treeVars, forkIt, textVars, descVars, walk, formVars>>

\* let copy = it.clone()
SelectClone ==
    /\ sel[1].live
    /\ ~sel[2].live
    /\ sel' = [sel EXCEPT ![2] = Select_clone(sel[1])]
    /\ forkIt' = [it |-> sel[1], at |-> Len(selOut[1])]
    /\ selEnded' = [selEnded EXCEPT ![2] = FALSE]
    /\ lastOp' = "clone"
    /\ UNCHANGED <<treeVars, selOut, selLast, textVars, descVars, walk, formVars>>

InitSelect == TreeInit(SelPalette, MaxNodes) /\ Idle
NextSelect == SelectCall(Selectors) \/ SelectNext(1)
SpecSelect == InitSelect /\ [][NextSelect]_vars

InitClone == TreeInit(SelPalette, MaxNodes) /\ Idle
NextClone == SelectCall(CloneSelectors) \/ SelectNext(1) \/ SelectNext(2) \/ SelectClone
SpecClone == InitClone /\ [][NextClone]_vars

(***************************************************************************)
(* What the claims are stated in: document order, the edge sequence of a   *)
(* subtree, and selector matching without a cache.                         *)
(***************************************************************************)
RECURSIVE SortedSeq(_)
SortedSeq(S) == IF S = {} THEN <<>> ELSE <<Min(S)>> \o SortedSeq(S \ {Min(S)})

RECURSIVE PreOrder(_), PreOrderAll(_)
PreOrder(n) == <<n>> \o PreOrderAll(SortedSeq(ChildSet(n)))
PreOrderAll(ns) == IF ns = <<>> THEN <<>> ELSE PreOrder(Head(ns)) \o PreOrderAll(Tail(ns))

RECURSIVE EdgeSeq(_), EdgeSeqAll(_)
EdgeSeq(n) == <<Open(n)>> \o EdgeSeqAll(SortedSeq(ChildSet(n))) \o <<Close(n)>>
EdgeSeqAll(ns) == IF ns = <<>> THEN <<>> ELSE EdgeSeq(Head(ns)) \o EdgeSeqAll(Tail(ns))

RECURSIVE Ancestors(_)
Ancestors(n) == IF parent[n] = 0 THEN {} ELSE {parent[n]} \cup Ancestors(parent[n])

StrictDescendants(n) == {d \in Nodes : n \in Ancestors(d)}
Subtree(n) == {n} \cup StrictDescendants(n)

IsPrefix(s, t) == Len(s) <= Len(t) /\ s = SubSeq(t, 1, Len(s))

Filter(s, Keep(_)) == SelectSeq(s, Keep)

\* The number of the traversal's position among the edges of the scope's
\* subtree: 0 before the first edge, one past the last when exhausted.
EdgeRank(t, scope) ==
    LET es == EdgeSeq(scope) IN
    IF t.edge.tag = "None" THEN (IF t.root = 0 THEN Len(es) + 1 ELSE 0)
    ELSE IF \E k \in 1..Len(es) : es[k] = t.edge
         THEN CHOOSE k \in 1..Len(es) : es[k] = t.edge
         ELSE Len(es) + 2

ElementIndex(e) ==
    1 + Cardinality({c \in Elements : parent[c] = parent[e] /\ parent[e] # 0 /\ c < e})

Matches(q, e, scope) ==
    \/ q.kind = "any"
    \/ q.kind = "type" /\ node[e].name \in q.names
    \/ q.kind = "scope" /\ e = scope
    \/ q.kind = "scope_child" /\ node[e].name \in q.names /\ parent[e] = scope
    \/ q.kind = "nth_child" /\ ElementIndex(e) = q.n

ExpectedSelect(S, Q) ==
    LET Keep(e) == e \in Elements /\ Matches(Q, e, S)
    IN Filter(Tail(PreOrder(S)), Keep)

IsSorted(s) == \A i, j \in 1..Len(s) : i < j => s[i] < s[j]

\* C1: the elements S.select(Q) returns up to None are exactly the strict
\* descendants of S that are elements and match Q with S as the scope, each
\* once, in document order; S itself is never returned.
C1_SelectYieldsMatchingDescendants ==
    sel[1].live =>
        LET want == ExpectedSelect(sel[1].scope, sel[1].selector) IN
        /\ IsPrefix(selOut[1], want)
        /\ selEnded[1] => selOut[1] = want
        /\ \A k \in 1..Len(selOut[1]) : selOut[1][k] # sel[1].scope

\* A finished selection whose scope matches the selector, that returned two
\* elements or more, in a document order that is not the order of the ids.
C1_Witness ==
    /\ sel[1].live /\ selEnded[1]
    /\ Matches(sel[1].selector, sel[1].scope, sel[1].scope)
    /\ Len(selOut[1]) >= 2
    /\ ~IsSorted(selOut[1])

ElementCount(S) == Cardinality(StrictDescendants(S) \cap Elements)

Exhausted(t) == t.root = 0 /\ t.edge.tag = "None"

\* C10: a Select is exhausted after finitely many next() calls: every call
\* moves the traversal strictly forward until it is exhausted, the position
\* never leaves the scope's subtree, no more elements are returned than the
\* scope has strict descendant elements, and after a None every later call
\* returns None.
C10_SelectFiniteAndFused ==
    [][\A i \in 1..2 :
          (sel[i].live /\ sel'[i].live) =>
             LET S == sel[i].scope
                 called == sel'[i] # sel[i] \/ selLast'[i] # selLast[i]
                           \/ selOut'[i] # selOut[i] \/ selEnded'[i] # selEnded[i]
             IN /\ sel'[i].scope = S
                /\ EdgeRank(sel'[i].inner, S) >= EdgeRank(sel[i].inner, S)
                /\ EdgeRank(sel'[i].inner, S) <= Len(EdgeSeq(S)) + 1
                /\ (called /\ ~selEnded[i]) =>
                       EdgeRank(sel'[i].inner, S) > EdgeRank(sel[i].inner, S)
                /\ sel'[i].inner.edge.node \in Subtree(S) \cup {0}
                /\ Len(selOut'[i]) <= ElementCount(S)
                /\ selEnded'[i] <=> Exhausted(sel'[i].inner)
                /\ selEnded[i] =>
                       /\ selEnded'[i]
                       /\ selOut'[i] = selOut[i]
                       /\ selLast'[i] = None]_vars

\* A Select that returned every strict descendant element of a scope with two
\* or more of them and then None.
C10_Witness ==
    /\ sel[1].live /\ selEnded[1]
    /\ ElementCount(sel[1].scope) >= 2
    /\ Len(selOut[1]) = ElementCount(sel[1].scope)
    /\ selLast[1] = None

RECURSIVE Drain(_)
Drain(s) ==
    LET r == Select_next(s)
    IN IF r.item = None THEN <<>> ELSE <<Unwrap(r.item)>> \o Drain(r.it)

SinceFork(i) ==
    IF i = 1 THEN SubSeq(selOut[1], forkIt.at + 1, Len(selOut[1])) ELSE selOut[2]

\* C7: a clone of a Select has the original's scope, selector and traversal
\* position and an empty positional cache; however the next() calls on the two
\* interleave, each returns the matches the original had left at the clone.
C7_CloneIsIndependent ==
    sel[2].live =>
        /\ sel[2].scope = forkIt.it.scope
        /\ sel[2].selector = forkIt.it.selector
        /\ lastOp = "clone" =>
              /\ sel[2].inner = sel[1].inner
              /\ sel[2].scope = sel[1].scope
              /\ sel[2].selector = sel[1].selector
              /\ sel[2].nth_index_cache = EmptyCache
              /\ sel[1] = forkIt.it
        /\ \A i \in 1..2 :
              /\ IsPrefix(SinceFork(i), Drain(forkIt.it))
              /\ selEnded[i] => SinceFork(i) = Drain(forkIt.it)
              /\ SinceFork(i) = SubSeq(ExpectedSelect(sel[i].scope, sel[i].selector),
                                       forkIt.at + 1, forkIt.at + Len(SinceFork(i)))

\* A clone taken after a next() call that filled the original's cache, with
\* both iterators advanced after the clone and the clone finished first.
C7_Witness ==
    /\ sel[2].live
    /\ forkIt.at >= 1
    /\ forkIt.it.nth_index_cache # EmptyCache
    /\ Len(SinceFork(1)) >= 1
    /\ Len(SinceFork(2)) >= 1
    /\ selEnded[2] /\ ~selEnded[1]

(***************************************************************************)
(* The tree operations: text(), descendent_elements(), is_child_of().      *)
(* One behaviour uses one of the three.                                    *)
(***************************************************************************)
TreePalette == {Elem("a", NoAttrs), TextNode("x"), TextNode("y"), CommentNode}

\* let t = E.text()
TextCall ==
    /\ ~txt.live /\ ~desc.live /\ walk.pc = "idle"
    /\ \E E \in Elements : txt' = ElementRef_text(E) /\ txtScope' = E
    /\ lastOp' = "text"
    /\ UNCHANGED <<treeVars, selVars, txtOut, txtEnded, descVars, walk, formVars>>

\* t.next()
TextNext ==
    /\ txt.live
    /\ LET r == Text_next(txt) IN
          /\ txt' = r.it
          /\ txtOut' = IF IsSome(r.item) THEN Append(txtOut, Unwrap(r.item)) ELSE txtOut
          /\ txtEnded' = (txtEnded \/ r.item = None)
    /\ lastOp' = "next"
    /\ UNCHANGED <<treeVars, selVars, txtScope, descVars, walk, formVars>>

\* let d = E.descendent_elements(): a first call, or a fresh call that
\* replaces the iterator of an earlier one
DescCall ==
    /\ ~txt.live /\ walk.pc = "idle"
    /\ \E E \in Elements : desc' = ElementRef_descendent_elements(E)
    /\ descOut' = <<>>
    /\ descEnded' = FALSE
    /\ lastOp' = IF desc.live THEN "again" ELSE "descendent_elements"
    /\ UNCHANGED <<treeVars, selVars, textVars, walk, formVars>>

\* d.next()
DescNext ==
    /\ desc.live
    /\ LET r == DescendentElements_next(desc) IN
          /\ desc' = r.it
          /\ descOut' = IF IsSome(r.item) THEN Append(descOut, Unwrap(r.item)) ELSE descOut
          /\ descEnded' = (descEnded \/ r.item = None)
    /\ lastOp' = IF lastOp \in {"again", "next again"} THEN "next again" ELSE "next"
    /\ UNCHANGED <<treeVars, selVars, textVars, walk, formVars>>

\* X.is_child_of(&P)
IsChildOf ==
    /\ ~txt.live /\ ~desc.live
    /\ \E X \in Elements, P \in Elements :
          LET r == IsChildOfLoop(NodeRef_parent(X), P, 0) IN
          walk' = [pc |-> "done", self |-> X, parent |-> P,
                   steps |-> r.steps, result |-> ElementRef_is_child_of(X, P)]
    /\ lastOp' = "is_child_of"
    /\ UNCHANGED <<treeVars, selVars, textVars, descVars, formVars>>

InitTree == TreeInit(TreePalette, MaxNodes) /\ Idle
NextTree == TextCall \/ TextNext \/ DescCall \/ DescNext \/ IsChildOf
SpecTree == InitTree /\ [][NextTree]_vars

IsElementNode(n) == node[n].kind = "Element"
IsTextNode(n) == node[n].kind = "Text"

TextOf(ns) == [k \in 1..Len(ns) |-> node[ns[k]].text]

\* C3: X.is_child_of(P) is true exactly when P is a proper ancestor of X; it
\* is transitive, false of an element and itself, false of siblings and of
\* elements in unrelated subtrees, and its walk ends at the root at the latest.
C3_IsChildOfIffProperAncestor ==
    walk.pc = "done" =>
        /\ walk.result <=> walk.parent \in Ancestors(walk.self)
        /\ walk.steps <= Cardinality(Ancestors(walk.self))
        /\ ~walk.result => walk.steps = Cardinality(Ancestors(walk.self))
        /\ walk.self = walk.parent => ~walk.result
        /\ (parent[walk.self] = parent[walk.parent]) => ~walk.result
        /\ \A Y \in Elements :
              (walk.result /\ ElementRef_is_child_of(walk.parent, Y))
                  => ElementRef_is_child_of(walk.self, Y)

\* A call that found P two levels above X.
C3_Witness ==
    /\ walk.pc = "done" /\ walk.result
    /\ walk.steps >= 2
    /\ walk.parent # parent[walk.self]

\* C8 as claimed: descendent_elements() returns exactly the descendant
\* elements of E, without E itself.
C8_Original ==
    (desc.live /\ descEnded) =>
        descOut = Filter(Tail(PreOrder(desc.self)), IsElementNode)

\* C8: descendent_elements() on E returns E itself and then the strict
\* descendant elements of E, each once, in document order, never a Text or a
\* Comment node; a fresh call starts again from E and returns the same.
C8_DescendentElementsFromSelf ==
    desc.live =>
        LET want == Filter(PreOrder(desc.self), IsElementNode) IN
        /\ IsPrefix(descOut, want)
        /\ descEnded => descOut = want
        /\ \A k \in 1..Len(descOut) : node[descOut[k]].kind = "Element"
        /\ Len(descOut) >= 1 => descOut[1] = desc.self

\* A second call, finished, that returned two elements or more from a subtree
\* that holds a Text or a Comment node.
C8_Witness ==
    /\ desc.live /\ descEnded
    /\ lastOp = "next again"
    /\ Len(descOut) >= 2
    /\ \E n \in StrictDescendants(desc.self) : node[n].kind # "Element"

\* C9: E.text() returns the contents of the Text nodes of E's subtree, E's
\* own Text children included, in document order, and nothing for an Element,
\* a Comment or a close edge.
C9_TextYieldsTextNodes ==
    txt.live =>
        LET want == TextOf(Filter(PreOrder(txtScope), IsTextNode)) IN
        /\ IsPrefix(txtOut, want)
        /\ txtEnded => txtOut = want

\* A finished text() over a subtree with a Text child of the scope, a Comment
\* and a second Text node with other content.
C9_Witness ==
    /\ txt.live /\ txtEnded
    /\ \E n \in Nodes : parent[n] = txtScope /\ node[n].kind = "Text"
    /\ \E n \in StrictDescendants(txtScope) : node[n].kind = "Comment"
    /\ Len(txtOut) >= 2 /\ txtOut[1] # txtOut[2]

(***************************************************************************)
(* The form operations.                                                    *)
(***************************************************************************)
A1(k, v) == [a \in {k} |-> v]
A2(k1, v1, k2, v2) == [a \in {k1, k2} |-> IF a = k1 THEN v1 ELSE v2]

FormPalette ==
    {Elem("form", A1("id", "a")), Elem("form", NoAttrs),
     Elem("input", [a \in {"form", "type", "value"} |->
                       CASE a = "form" -> "a" [] a = "type" -> "hidden" [] OTHER -> "v"]),
     Elem("input", A2("form", "b", "type", "submit")),
     Elem("button", A1("form", "a")),
     Elem("div", A1("form", "a")),
     Elem("select", NoAttrs)}

FormElements == {e \in Elements : node[e].name = "form"}

\* let form = Form::wrap(root, form_element)
FormWrap ==
    /\ form.state = "none"
    /\ \E root \in Elements, F \in FormElements : form' = Form_wrap(root, F)
    /\ lastOp' = "wrap"
    /\ UNCHANGED <<treeVars, selVars, textVars, descVars, walk, inputs, gv>>

\* form.inputs()
FormInputs ==
    /\ form.state = "ok"
    /\ inputs' = Some(Form_inputs(form))
    /\ lastOp' = "inputs"
    /\ UNCHANGED <<treeVars, selVars, textVars, descVars, walk, form, gv>>

InitForm ==
    /\ TreeInit(FormPalette, FormNodes)
    /\ node[1].name \in {"form", "div"}
    /\ \E n \in DOMAIN node : node[n].name = "form"
    /\ Idle
NextForm == FormWrap \/ FormInputs
SpecForm == InitForm /\ [][NextForm]_vars

ControlTags == {"button", "fieldset", "input", "keygen", "object", "output",
                "select", "textarea"}
UnhandledTags == {"button", "fieldset", "keygen", "object", "output"}

AttrPresent(e, a) == a \in DOMAIN node[e].attrs

\* Membership as the claims state it
IsMember(E, F) ==
    \/ F \in Ancestors(E)
    \/ /\ AttrPresent(E, "form") /\ AttrPresent(F, "id")
       /\ node[E].attrs["form"] = node[F].attrs["id"]

\* C2: inputs() contains an element E below root exactly when E's tag is a
\* control tag and E is a descendant of the form element or E's form
\* attribute and the form's id attribute are both present and equal.
C2_InputsAreTheMembers ==
    IsSome(inputs) =>
        \A E \in StrictDescendants(form.root) \cap Elements :
            E \in Range(Unwrap(inputs)) <=>
                /\ node[E].name \in ControlTags
                /\ IsMember(E, form.form_element)

\* inputs() that returned a member by descent and a member by its form
\* attribute that is no descendant of the form element.
C2_Witness ==
    /\ IsSome(inputs)
    /\ \E E \in Range(Unwrap(inputs)) : form.form_element \in Ancestors(E)
    /\ \E E \in Range(Unwrap(inputs)) : form.form_element \notin Ancestors(E)

TypeValues == {"checkbox", "radio", "color", "date", "datetime-local", "email",
               "hidden", "month", "number", "password", "range", "", "submit", "text"}

InputAttrValues(k) ==
    CASE k = "type" -> TypeValues
      [] k = "checked" -> {"", "checked"}
      [] k = "value" -> {"", "5"}
      [] k = "name" -> {"n"}

\* <input> with every combination of the type, checked, value and name
\* attributes present or absent
InputPalette ==
    LET keys == {"type", "checked", "value", "name"}
        all == UNION {InputAttrValues(k) : k \in keys}
    IN {Elem("input", f) :
           f \in {g \in UNION {[ks -> all] : ks \in SUBSET keys} :
                     \A k \in DOMAIN g : g[k] \in InputAttrValues(k)}}

\* <select>, <datalist>, <option> with and without selected and value, text
OptionPalette ==
    {Elem("select", NoAttrs), Elem("datalist", NoAttrs),
     Elem("option", NoAttrs), Elem("option", A1("value", "y")),
     Elem("option", A1("selected", "")),
     Elem("option", A2("selected", "", "value", "x")),
     TextNode("t")}

\* get_value(E)
GetValue ==
    /\ \E E \in Elements : gv' = [called |-> TRUE, element |-> E, result |-> get_value(E)]
    /\ lastOp' = "get_value"
    /\ UNCHANGED <<treeVars, selVars, textVars, descVars, walk, form, inputs>>

InitValue ==
    /\ \/ TreeInit(InputPalette, InputNodes)
       \/ TreeInit(OptionPalette, MaxNodes) /\ node[1].name \in {"select", "datalist"}
    /\ Idle
NextValue == GetValue
SpecValue == InitValue /\ [][NextValue]_vars

AttrOf(e, a) == IF AttrPresent(e, a) THEN Some(node[e].attrs[a]) ELSE None

\* C4: the value of an input depends on its type, checked and value attributes
\* alone: none without a type; the checked attribute, if present, for checkbox
\* and radio; the value attribute, if present, for color, date, datetime-local,
\* email, hidden, month, number, password, range and the empty type; none for
\* any other type.
C4_InputValueByType ==
    (gv.called /\ node[gv.element].name = "input") =>
        LET e == gv.element IN
        /\ ~gv.result.panic
        /\ ~AttrPresent(e, "type") => gv.result.value = None
        /\ AttrPresent(e, "type") =>
              LET type == node[e].attrs["type"] IN
              /\ type \in {"checkbox", "radio"} => gv.result.value = AttrOf(e, "checked")
              /\ type \in {"color", "date", "datetime-local", "email", "hidden",
                           "month", "number", "password", "range", ""}
                    => gv.result.value = AttrOf(e, "value")
              /\ type \in {"submit", "text"} => gv.result.value = None

\* get_value of <input type="checkbox" value="5"> with no checked attribute.
C4_Witness ==
    /\ gv.called /\ node[gv.element].name = "input"
    /\ AttrOf(gv.element, "type") = Some("checkbox")
    /\ AttrOf(gv.element, "value") = Some("5")
    /\ ~AttrPresent(gv.element, "checked")
    /\ gv.result.value = None

ElementChildren(e) == Filter(SortedSeq(ChildSet(e)), IsElementNode)

\* C5: the value of a select or datalist is the value attribute of its first
\* immediate element child with a selected attribute, and no value when there
\* is no such child or when that child has no value attribute, whatever later
\* or deeper elements carry.
C5_FirstSelectedChild ==
    (gv.called /\ node[gv.element].name \in {"select", "datalist"}) =>
        LET cs == ElementChildren(gv.element)
            sel1 == {k \in 1..Len(cs) : AttrPresent(cs[k], "selected")}
        IN /\ ~gv.result.panic
           /\ sel1 = {} => gv.result.value = None
           /\ sel1 # {} => gv.result.value = AttrOf(cs[Min(sel1)], "value")

\* get_value of a select whose first selected child has no value attribute
\* and is followed by a selected child with one.
C5_Witness ==
    /\ gv.called /\ node[gv.element].name = "select"
    /\ gv.result.value = None
    /\ \E c, d \in ChildSet(gv.element) :
          /\ c < d
          /\ AttrPresent(c, "selected") /\ ~AttrPresent(c, "value")
          /\ AttrPresent(d, "selected") /\ AttrPresent(d, "value")

====
